---- MODULE Spec2Model ----
(***************************************************************************)
(* A model of escomplex: the module analyser (src/module.js) and the       *)
(* project analyser (src/project.js).                                      *)
(*                                                                         *)
(* Optional JavaScript values (undefined / present) are modelled as        *)
(* sequences of length 0 or 1.  Numbers that the code computes by a        *)
(* division are kept as fractions [num, den]; values that involve a        *)
(* logarithm are kept as the terms the code builds them from.              *)
(***************************************************************************)
EXTENDS Integers, Sequences, FiniteSets, TLC

VARIABLES
  \* ---- src/module.js ----
  report,        \* the file-level `var report`: index into heap, 0 = undefined
  heap,          \* the module report objects allocated by createReport
  pc,            \* per analyse call: "idle", "walking", "returned", "threw"
  locals,        \* per analyse call: settings, currentReport, clearDependencies, scopeStack
  active,        \* the JavaScript call stack of analyse calls that are inside walker.walk
  outcome,       \* per analyse call: what it returned (a report) or threw (a message)
  depCalls,      \* per analyse call: the clearFlag arguments handed to syntax.dependencies
  popped,        \* per analyse call: function reports as they were when popScope removed them
  alone,         \* per analyse call: the same callbacks applied to an analysis of its own
  toplevel,      \* per analyse call: the amounts of the nodes processed while no function was current
  events,        \* number of walker callbacks so far
  reentrant,     \* whether a walker may call analyse from inside walk
  \* ---- src/project.js ----
  modules,       \* the modules handed to project analyse
  options,       \* the options handed to project analyse
  ppc,           \* where project analyse / processResults is
  analysed,      \* the paths handed to the module analyser so far
  reports,       \* the reports collected by modules.map
  result,        \* what analyse / processResults returned (0 or 1 element)
  thrown,        \* the message of the error analyse raised (0 or 1 element)
  fan            \* the fanIn / fanOut arrays of the last setCoreSize (0 or 1 element)

moduleVars == <<report, heap, pc, locals, active, outcome, depCalls, popped, alone, toplevel, events, reentrant>>
projectVars == <<modules, options, ppc, analysed, reports, result, thrown, fan>>
vars == <<report, heap, pc, locals, active, outcome, depCalls, popped, alone, toplevel, events, reentrant,
          modules, options, ppc, analysed, reports, result, thrown, fan>>

\* ---------------------------------------------------------------- bounds
MaxCalls == 2
MaxEvents == 3
MaxModules == 3
MaxN == 3

Calls == 1..MaxCalls

\* ---------------------------------------------------------------- helpers
Some(x) == <<x>>
Nothing == <<>>
Div(n, d) == [num |-> n, den |-> d]

RECURSIVE SumSeq(_)
SumSeq(s) == IF s = <<>> THEN 0 ELSE s[1] + SumSeq(Tail(s))

\* The value of an expression computed once and bound to a name: The({e(x) : x \in {v}})
The(S) == CHOOSE x \in S : TRUE

Last(s) == s[Len(s)]
Front(s) == SubSeq(s, 1, Len(s) - 1)
IndexOf(s, x) == \E i \in 1..Len(s) : s[i] = x

\* ---------------------------------------------------------------- src/module.js

defaultSettings ==
  [forin |-> FALSE, logicalor |-> TRUE, newmi |-> FALSE, switchcase |-> TRUE, trycatch |-> FALSE]

\* A reference to a function report object: the f-th element of heap[r].functions.
\* undefined is NoRef.
NoRef == [r |-> 0, f |-> 0]

createInitialHalsteadItemState == [distinct |-> 0, identifiers |-> <<>>, total |-> 0]

createInitialHalsteadState ==
  [operands |-> createInitialHalsteadItemState,
   operators |-> createInitialHalsteadItemState,
   derived |-> Nothing]

\* lines: Nothing, or Some([start |-> l1, end |-> l2])
createFunctionReport(name, lines, params) ==
  [cyclomatic |-> 1,
   halstead |-> createInitialHalsteadState,
   name |-> name,
   params |-> params,
   sloc |-> [logical |-> 0,
             physical |-> IF lines # Nothing
                          THEN Some(lines[1].end - lines[1].start + 1) ELSE Nothing],
   line |-> IF lines # Nothing THEN Some(lines[1].start) ELSE Nothing,
   cyclomaticDensity |-> Nothing]

createReport(lines) ==
  [aggregate |-> createFunctionReport(Nothing, lines, 0),
   dependencies |-> <<>>,
   functions |-> <<>>,
   averages |-> Nothing]

\* Names for which Object.prototype.hasOwnProperty(identifier) is true.
ObjectPrototypeNames ==
  {"constructor", "toString", "toLocaleString", "valueOf", "hasOwnProperty",
   "isPrototypeOf", "propertyIsEnumerable", "__proto__",
   "__defineGetter__", "__defineSetter__", "__lookupGetter__", "__lookupSetter__"}

\* Mutant: every identifier is taken as new.
isHalsteadMetricDistinctAlways(bag, identifier) == TRUE

isHalsteadMetricDistinct(bag, identifier) == ~IndexOf(bag.identifiers, identifier)

recordDistinctHalsteadMetric(bag, identifier) ==
  [bag EXCEPT !.identifiers = Append(@, identifier)]

incrementHalsteadMetric(bag, type) == [bag EXCEPT ![type] = @ + 1]

RECURSIVE incrementDistinctHalsteadItems(_, _)
incrementDistinctHalsteadItems(bag, identifier) ==
  IF identifier \in ObjectPrototypeNames
  THEN incrementDistinctHalsteadItems(bag, "_" \o identifier)
  ELSE IF isHalsteadMetricDistinct(bag, identifier)
       THEN incrementHalsteadMetric(recordDistinctHalsteadMetric(bag, identifier), "distinct")
       ELSE bag

incrementTotalHalsteadItems(bag) == incrementHalsteadMetric(bag, "total")

incrementHalsteadItems(bag, identifier) ==
  incrementTotalHalsteadItems(incrementDistinctHalsteadItems(bag, identifier))

\* The operators below take the heap h, the file-level report rp and the
\* caller's currentReport cur, and give the heap after the call.

halsteadItemEncountered(h, rp, cur, metric, identifier) ==
  LET h1 == IF cur # NoRef
            THEN [h EXCEPT ![cur.r].functions[cur.f].halstead[metric] =
                                incrementHalsteadItems(@, identifier)]
            ELSE h
  IN [h1 EXCEPT ![rp].aggregate.halstead[metric] = incrementHalsteadItems(@, identifier)]

\* syntax[metric]: Nothing (not an array) or Some(sequence of items); an item is
\* [identifier |-> string, computed |-> whether identifier is a function of the node,
\*  filter |-> "absent" | "true" | "false" (what s.filter(node) returns)]
RECURSIVE forEachHalsteadItem(_, _, _, _, _)
forEachHalsteadItem(h, rp, cur, metric, items) ==
  IF items = <<>> THEN h
  ELSE LET s == Head(items)
           h1 == IF s.filter = "absent" \/ s.filter = "true"
                 THEN halsteadItemEncountered(h, rp, cur, metric, s.identifier)
                 ELSE h
       IN forEachHalsteadItem(h1, rp, cur, metric, Tail(items))

processHalsteadMetric(h, rp, cur, metric, syntax) ==
  IF syntax[metric] # Nothing
  THEN forEachHalsteadItem(h, rp, cur, metric, syntax[metric][1])
  ELSE h

processOperators(h, rp, cur, syntax) == processHalsteadMetric(h, rp, cur, "operators", syntax)
processOperands(h, rp, cur, syntax) == processHalsteadMetric(h, rp, cur, "operands", syntax)

incrementLogicalSloc(h, rp, cur, amount) ==
  LET h1 == [h EXCEPT ![rp].aggregate.sloc.logical = @ + amount]
  IN IF cur # NoRef
     THEN [h1 EXCEPT ![cur.r].functions[cur.f].sloc.logical = @ + amount]
     ELSE h1

\* Mutant: the amount goes to the current function instead of the aggregate.
incrementCyclomaticOnlyCurrent(h, rp, cur, amount) ==
  IF cur # NoRef
  THEN [h EXCEPT ![cur.r].functions[cur.f].cyclomatic = @ + amount]
  ELSE [h EXCEPT ![rp].aggregate.cyclomatic = @ + amount]

incrementCyclomatic(h, rp, cur, amount) ==
  LET h1 == [h EXCEPT ![rp].aggregate.cyclomatic = @ + amount]
  IN IF cur # NoRef
     THEN [h1 EXCEPT ![cur.r].functions[cur.f].cyclomatic = @ + amount]
     ELSE h1

\* syntax[name]: [kind |-> "absent" | "number" | "function", value |-> the number,
\* or what the function returns for the node]
processLloc(h, rp, cur, syntax) ==
  LET amount == syntax.lloc
  IN IF amount.kind = "number" THEN incrementLogicalSloc(h, rp, cur, amount.value)
     ELSE IF amount.kind = "function" THEN incrementLogicalSloc(h, rp, cur, amount.value)
     ELSE h

processCyclomatic(h, rp, cur, syntax) ==
  LET amount == syntax.cyclomatic
  IN IF amount.kind = "number" THEN incrementCyclomatic(h, rp, cur, amount.value)
     ELSE IF amount.kind = "function" THEN incrementCyclomatic(h, rp, cur, amount.value)
     ELSE h

\* syntax.dependencies: [isFunction |-> BOOLEAN, returns |-> "object" | "array" | "other",
\* value |-> the records returned].  The result says whether the function was called.
\* Mutant: the latch is released only when the function gave records.
processDependenciesAppended(syntax) ==
  /\ syntax.dependencies.isFunction
  /\ syntax.dependencies.returns \in {"object", "array"}

processDependenciesCalled(syntax) == syntax.dependencies.isFunction

processDependencies(h, rp, syntax) ==
  IF syntax.dependencies.isFunction
  THEN IF syntax.dependencies.returns = "object" \/ syntax.dependencies.returns = "array"
       THEN [h EXCEPT ![rp].dependencies = @ \o syntax.dependencies.value]
       ELSE h
  ELSE h

\* processNode of one analyse call with locals L; gives the heap and the locals.
processNode(h, rp, L, syntax) ==
  LET cur == L.currentReport
      h1 == processLloc(h, rp, cur, syntax)
      h2 == processCyclomatic(h1, rp, cur, syntax)
      h3 == processOperators(h2, rp, cur, syntax)
      h4 == processOperands(h3, rp, cur, syntax)
      h5 == processDependencies(h4, rp, syntax)
  IN [heap |-> h5,
      locals |-> IF processDependenciesCalled(syntax)
                 THEN [L EXCEPT !.clearDependencies = FALSE]
                 ELSE L]

pushScope(h, rp, L, name, loc, parameterCount) ==
  LET new == createFunctionReport(Some(name), loc, parameterCount)
      h1 == [h EXCEPT ![rp].functions = Append(@, new),
                      ![rp].aggregate.params = @ + parameterCount]
      ref == [r |-> rp, f |-> Len(h1[rp].functions)]
  IN [heap |-> h1,
      locals |-> [L EXCEPT !.currentReport = ref,
                           !.scopeStack = Append(@, ref)]]

\* Mutant: the stack is popped and currentReport left as it was.
popScopeKeepingCurrent(h, rp, L) ==
  [heap |-> h,
   locals |-> [L EXCEPT !.scopeStack = IF @ = <<>> THEN @ ELSE Front(@)]]

popScope(h, rp, L) ==
  LET stack == IF L.scopeStack = <<>> THEN <<>> ELSE Front(L.scopeStack)
  IN [heap |-> h,
      locals |-> [L EXCEPT !.scopeStack = stack,
                           !.currentReport = IF Len(stack) > 0 THEN Last(stack) ELSE NoRef]]


calculateCyclomaticDensity(data) ==
  [data EXCEPT !.cyclomaticDensity = Some(Div(data.cyclomatic * 100, data.sloc.logical))]

\* volume = length * log2(vocabulary) is kept as the pair it is computed from (a
\* pair with length 0 stands for 0); effort, bugs and time as the terms they are
\* products or quotients of.
nilHalsteadMetrics(data, length) ==
  [data EXCEPT !.derived =
     Some([length |-> length, vocabulary |-> 0, difficulty |-> Div(0, 1),
           volume |-> [length |-> 0, vocabulary |-> 0],
           effort |-> [difficulty |-> Div(0, 1), volume |-> [length |-> 0, vocabulary |-> 0]],
           bugs |-> [volume |-> [length |-> 0, vocabulary |-> 0], over |-> 3000],
           time |-> [difficulty |-> Div(0, 1), volume |-> [length |-> 0, vocabulary |-> 0],
                     over |-> 18]])]

calculateHalsteadMetrics(data) ==
  LET length == data.operators.total + data.operands.total
      vocabulary == data.operators.distinct + data.operands.distinct
      difficulty == IF data.operands.distinct = 0
                    THEN Div(data.operators.distinct, 2)
                    ELSE Div(data.operators.distinct * data.operands.total,
                             2 * data.operands.distinct)
      volume == [length |-> length, vocabulary |-> vocabulary]
  IN IF length = 0
     THEN nilHalsteadMetrics(data, length)
     ELSE [data EXCEPT !.derived =
             Some([length |-> length, vocabulary |-> vocabulary, difficulty |-> difficulty,
                   volume |-> volume,
                   effort |-> [difficulty |-> difficulty, volume |-> volume],
                   bugs |-> [volume |-> volume, over |-> 3000],
                   time |-> [difficulty |-> difficulty, volume |-> volume, over |-> 18]])]

finaliseFunctionReport(data) ==
  LET d == calculateCyclomaticDensity(data)
  IN [d EXCEPT !.halstead = calculateHalsteadMetrics(@)]

\* sums: loc, cyclomatic, params are numbers; effort is the sequence of the
\* effort terms summed.
sumMaintainabilityMetrics(sums, data) ==
  [loc |-> sums.loc + data.sloc.logical,
   cyclomatic |-> sums.cyclomatic + data.cyclomatic,
   effort |-> Append(sums.effort, data.halstead.derived[1].effort),
   params |-> sums.params + data.params]

RECURSIVE sumFunctions(_, _)
sumFunctions(sums, fns) ==
  IF fns = <<>> THEN sums
  ELSE sumFunctions(sumMaintainabilityMetrics(sums, Head(fns)), Tail(fns))

\* 'Encountered function with cyclomatic complexity zero!'
calculateMaintainabilityIndexThrows(sums) == sums.cyclomatic = 0

\* Gives the heap after calculateMetrics and whether it threw.
calculateMetrics(h, rp, settings) ==
  LET fns == [i \in 1..Len(h[rp].functions) |-> finaliseFunctionReport(h[rp].functions[i])]
      agg == finaliseFunctionReport(h[rp].aggregate)
      zero == [loc |-> 0, cyclomatic |-> 0, effort |-> <<>>, params |-> 0]
      sums0 == sumFunctions(zero, fns)
      sums == IF Len(fns) = 0 THEN sumMaintainabilityMetrics(sums0, agg) ELSE sums0
      count == IF Len(fns) = 0 THEN 1 ELSE Len(fns)
      h1 == [h EXCEPT ![rp].functions = fns, ![rp].aggregate = agg]
      threw == calculateMaintainabilityIndexThrows(sums)
  IN [threw |-> threw,
      heap |-> IF threw THEN h1
               ELSE [h1 EXCEPT ![rp].averages =
                       Some([maintainability |->
                               [effort |-> [terms |-> sums.effort, count |-> count],
                                cyclomatic |-> Div(sums.cyclomatic, count),
                                loc |-> Div(sums.loc, count),
                                newmi |-> settings.newmi],
                             loc |-> Div(sums.loc, count),
                             cyclomatic |-> Div(sums.cyclomatic, count),
                             effort |-> [terms |-> sums.effort, count |-> count],
                             params |-> Div(sums.params, count)])]]

\* ---------------------------------------------------------------- walker inputs

Absent == [kind |-> "absent", value |-> 0]
Number(n) == [kind |-> "number", value |-> n]
Function(n) == [kind |-> "function", value |-> n]
Item(id, computed, filter) == [identifier |-> id, computed |-> computed, filter |-> filter]
NoDependencies == [isFunction |-> FALSE, returns |-> "other", value |-> <<>>]
\* A dependency record; its path is the sequence of the characters of the string.
Dep(type, path) == [type |-> type, path |-> path]

\* The syntax descriptors a walker hands to processNode.
Syntaxes ==
  { [lloc |-> Number(1), cyclomatic |-> Function(1),
     operators |-> Some(<<Item("a", FALSE, "absent")>>),
     operands |-> Some(<<Item("constructor", TRUE, "true")>>),
     dependencies |-> [isFunction |-> TRUE, returns |-> "object",
                       value |-> <<Dep("CommonJS", <<".", "/", "b">>)>>]],
    [lloc |-> Function(1), cyclomatic |-> Number(-1),
     operators |-> Some(<<Item("constructor", FALSE, "false"), Item("_constructor", FALSE, "absent")>>),
     operands |-> Some(<<Item("a", FALSE, "absent"), Item("a", TRUE, "absent")>>),
     dependencies |-> [isFunction |-> TRUE, returns |-> "array",
                       value |-> <<Dep("CommonJS", <<".", "/", "b">>), Dep("AMD", <<"c">>)>>]],
    [lloc |-> Absent, cyclomatic |-> Absent,
     operators |-> Nothing, operands |-> Nothing,
     dependencies |-> [isFunction |-> TRUE, returns |-> "other", value |-> <<>>]],
    [lloc |-> Absent, cyclomatic |-> Absent,
     operators |-> Some(<<Item("constructor", FALSE, "absent")>>),
     operands |-> Some(<<Item("b", FALSE, "absent")>>),
     dependencies |-> NoDependencies] }

\* The arguments a walker hands to createScope.
ScopeArgs ==
  { [name |-> "f", loc |-> Some([start |-> 2, end |-> 4]), params |-> 2] }

\* ast: Nothing (not an object) or Some([loc |-> ...])
\* walker: "walker", or "notObject", or "noWalk" (an object without a walk function)
\* options: Nothing (not an object) or Some(settings)
AnalyseArgs ==
  { [ast |-> Nothing, walker |-> "walker", options |-> Nothing],
    [ast |-> Some([loc |-> Nothing]), walker |-> "notObject", options |-> Nothing],
    [ast |-> Some([loc |-> Nothing]), walker |-> "noWalk", options |-> Nothing],
    [ast |-> Some([loc |-> Nothing]), walker |-> "walker", options |-> Nothing],
    [ast |-> Some([loc |-> Some([start |-> 1, end |-> 9])]), walker |-> "walker",
     options |-> Some([defaultSettings EXCEPT !.newmi = TRUE])] }

\* The amounts a descriptor asks for, read off the descriptor alone.
AmountOf(a) == IF a.kind = "absent" THEN 0 ELSE a.value
Passing(items) ==
  IF items = Nothing THEN 0
  ELSE Cardinality({i \in 1..Len(items[1]) : items[1][i].filter \in {"absent", "true"}})
AmountsOf(syntax) ==
  [lloc |-> AmountOf(syntax.lloc), cyclomatic |-> AmountOf(syntax.cyclomatic),
   operators |-> Passing(syntax.operators), operands |-> Passing(syntax.operands)]
NoAmounts == [lloc |-> 0, cyclomatic |-> 0, operators |-> 0, operands |-> 0]

\* ---------------------------------------------------------------- analyse (module)

NoLocals == [settings |-> defaultSettings, currentReport |-> NoRef,
             clearDependencies |-> TRUE, scopeStack |-> <<>>]
NoOutcome == [kind |-> "none", message |-> "", ref |-> 0, value |-> Nothing]
NoAlone == [heap |-> <<>>, locals |-> NoLocals]

Running(c) == active # <<>> /\ Last(active) = c /\ pc[c] = "walking"

\* The three asserts of analyse, in order.
analyseAssertion(ast, walker) ==
  IF ast = Nothing THEN "Invalid syntax tree"
  ELSE IF walker = "notObject" THEN "Invalid walker"
  ELSE IF walker = "noWalk" THEN "Invalid walker.walk method"
  ELSE ""

\* analyse up to the call of walker.walk (or to a failed assert).
Analyse(c, ast, walker, opts) ==
  /\ pc[c] = "idle"
  /\ \A d \in Calls : d < c => pc[d] # "idle"
  /\ active # <<>> => reentrant
  /\ IF analyseAssertion(ast, walker) # ""
     THEN /\ pc' = [pc EXCEPT ![c] = "threw"]
          /\ outcome' = [outcome EXCEPT ![c] =
                           [NoOutcome EXCEPT !.kind = "error",
                                             !.message = analyseAssertion(ast, walker)]]
          /\ UNCHANGED <<report, heap, locals, active, alone>>
     ELSE LET L == [settings |-> IF opts # Nothing THEN opts[1] ELSE defaultSettings,
                    currentReport |-> NoRef,
                    clearDependencies |-> TRUE,
                    scopeStack |-> <<>>]
          IN /\ heap' = Append(heap, createReport(ast[1].loc))
             /\ report' = Len(heap) + 1
             /\ locals' = [locals EXCEPT ![c] = L]
             /\ alone' = [alone EXCEPT ![c] =
                            [heap |-> <<createReport(ast[1].loc)>>, locals |-> L]]
             /\ pc' = [pc EXCEPT ![c] = "walking"]
             /\ active' = Append(active, c)
             /\ UNCHANGED outcome
  /\ UNCHANGED <<depCalls, popped, toplevel, events, reentrant>>
  /\ UNCHANGED projectVars

\* walker.walk calls handlers.createScope
CreateScope(c, a) ==
  /\ Running(c)
  /\ events < MaxEvents
  /\ LET res == pushScope(heap, report, locals[c], a.name, a.loc, a.params)
         sep == pushScope(alone[c].heap, 1, alone[c].locals, a.name, a.loc, a.params)
     IN /\ heap' = res.heap
        /\ locals' = [locals EXCEPT ![c] = res.locals]
        /\ alone' = [alone EXCEPT ![c] = sep]
  /\ events' = events + 1
  /\ UNCHANGED <<report, pc, active, outcome, depCalls, popped, toplevel, reentrant>>
  /\ UNCHANGED projectVars

\* walker.walk calls handlers.popScope
PopScope(c) ==
  /\ Running(c)
  /\ events < MaxEvents
  /\ LET res == popScope(heap, report, locals[c])
         sep == popScope(alone[c].heap, 1, alone[c].locals)
         top == locals[c].currentReport
     IN /\ heap' = res.heap
        /\ locals' = [locals EXCEPT ![c] = res.locals]
        /\ alone' = [alone EXCEPT ![c] = sep]
        /\ popped' = IF locals[c].scopeStack = <<>> THEN popped
                     ELSE [popped EXCEPT ![c] =
                             Append(@, [ref |-> Last(locals[c].scopeStack),
                                        value |-> heap[Last(locals[c].scopeStack).r]
                                                    .functions[Last(locals[c].scopeStack).f]])]
  /\ events' = events + 1
  /\ UNCHANGED <<report, pc, active, outcome, depCalls, toplevel, reentrant>>
  /\ UNCHANGED projectVars

\* walker.walk calls handlers.processNode
ProcessNode(c, syntax) ==
  /\ Running(c)
  /\ events < MaxEvents
  /\ LET res == processNode(heap, report, locals[c], syntax)
         sep == processNode(alone[c].heap, 1, alone[c].locals, syntax)
     IN /\ heap' = res.heap
        /\ locals' = [locals EXCEPT ![c] = res.locals]
        /\ alone' = [alone EXCEPT ![c] = sep]
  /\ depCalls' = IF syntax.dependencies.isFunction
                 THEN [depCalls EXCEPT ![c] = Append(@, locals[c].clearDependencies)]
                 ELSE depCalls
  /\ toplevel' = IF locals[c].currentReport = NoRef
                 THEN [toplevel EXCEPT ![c] =
                         [k \in DOMAIN @ |-> @[k] + AmountsOf(syntax)[k]]]
                 ELSE toplevel
  /\ events' = events + 1
  /\ UNCHANGED <<report, pc, active, outcome, popped, reentrant>>
  /\ UNCHANGED projectVars

\* walker.walk returns: calculateMetrics(settings), then `return report`
Return(c) ==
  /\ Running(c)
  /\ LET res == calculateMetrics(heap, report, locals[c].settings)
         sep == calculateMetrics(alone[c].heap, 1, alone[c].locals.settings)
     IN /\ heap' = res.heap
        /\ alone' = [alone EXCEPT ![c].heap = sep.heap]
        /\ IF res.threw
           THEN /\ pc' = [pc EXCEPT ![c] = "threw"]
                /\ outcome' = [outcome EXCEPT ![c] =
                      [NoOutcome EXCEPT !.kind = "error",
                         !.message = "Encountered function with cyclomatic complexity zero!"]]
           ELSE /\ pc' = [pc EXCEPT ![c] = "returned"]
                /\ outcome' = [outcome EXCEPT ![c] =
                      [NoOutcome EXCEPT !.kind = "report", !.ref = report,
                                        !.value = Some(res.heap[report])]]
  /\ active' = Front(active)
  /\ UNCHANGED <<report, locals, depCalls, popped, toplevel, events, reentrant>>
  /\ UNCHANGED projectVars

ModuleInit ==
  /\ report = 0
  /\ heap = <<>>
  /\ pc = [c \in Calls |-> "idle"]
  /\ locals = [c \in Calls |-> NoLocals]
  /\ active = <<>>
  /\ outcome = [c \in Calls |-> NoOutcome]
  /\ depCalls = [c \in Calls |-> <<>>]
  /\ popped = [c \in Calls |-> <<>>]
  /\ alone = [c \in Calls |-> NoAlone]
  /\ toplevel = [c \in Calls |-> NoAmounts]
  /\ events = 0

ProjectIdle ==
  /\ modules = <<>>
  /\ options = [skipCalculation |-> FALSE, noCoreSize |-> FALSE, newmi |-> FALSE]
  /\ ppc = "idle"
  /\ analysed = <<>>
  /\ reports = <<>>
  /\ result = Nothing
  /\ thrown = Nothing
  /\ fan = Nothing

Init == ModuleInit /\ reentrant = FALSE /\ ProjectIdle
InitReentrant == ModuleInit /\ reentrant = TRUE /\ ProjectIdle

Next ==
  \/ \E c \in Calls, a \in AnalyseArgs : Analyse(c, a.ast, a.walker, a.options)
  \/ \E c \in Calls, a \in ScopeArgs : CreateScope(c, a)
  \/ \E c \in Calls : PopScope(c)
  \/ \E c \in Calls, syntax \in Syntaxes : ProcessNode(c, syntax)
  \/ \E c \in Calls : Return(c)

\* Analyse calls one after the other.
Spec == Init /\ [][Next]_vars

\* A walker may call analyse from inside walk.
SpecReentrant == InitReentrant /\ [][Next]_vars


\* ---------------------------------------------------------------- node's path module (POSIX)
\* Strings that the code takes apart are sequences of one-character strings.

sep == "/"

\* process.cwd(), as its segments
Cwd == << <<"w">> >>

\* The UTF-16 code unit of a character, for the < and > of strings.
charCode(c) ==
  CASE c = "." -> 46 [] c = "/" -> 47 [] c = "a" -> 97 [] c = "b" -> 98 [] c = "d" -> 100
    [] c = "e" -> 101 [] c = "h" -> 104 [] c = "i" -> 105 [] c = "j" -> 106
    [] c = "l" -> 108 [] c = "n" -> 110 [] c = "o" -> 111 [] c = "s" -> 115
    [] c = "x" -> 120

RECURSIVE stringLess(_, _)
stringLess(l, r) ==
  IF r = <<>> THEN FALSE
  ELSE IF l = <<>> THEN TRUE
  ELSE IF Head(l) = Head(r) THEN stringLess(Tail(l), Tail(r))
  ELSE charCode(Head(l)) < charCode(Head(r))

\* String.prototype.split(path.sep)
RECURSIVE split(_)
split(s) ==
  IF \E i \in 1..Len(s) : s[i] = sep
  THEN LET i == CHOOSE k \in 1..Len(s) : s[k] = sep /\ \A m \in 1..(k - 1) : s[m] # sep
       IN <<SubSeq(s, 1, i - 1)>> \o split(SubSeq(s, i + 1, Len(s)))
  ELSE <<s>>

\* The segments of an absolute path after normalisation: '', '.' dropped, '..' resolved.
RECURSIVE normalizeSegments(_, _)
normalizeSegments(segs, acc) ==
  IF segs = <<>> THEN acc
  ELSE LET g == Head(segs)
       IN IF g = <<>> \/ g = <<".">> THEN normalizeSegments(Tail(segs), acc)
          ELSE IF g = <<".", ".">>
               THEN normalizeSegments(Tail(segs), IF acc = <<>> THEN acc ELSE Front(acc))
               ELSE normalizeSegments(Tail(segs), Append(acc, g))

isAbsolute(p) == p # <<>> /\ p[1] = sep

\* path.resolve(p) and path.resolve(dir, p), dir an absolute path: the segments of the result
pathResolve(p) ==
  normalizeSegments(IF isAbsolute(p) THEN split(p) ELSE Cwd \o split(p), <<>>)
pathResolveFrom(dir, p) ==
  normalizeSegments(IF isAbsolute(p) THEN split(p) ELSE dir \o split(p), <<>>)

\* path.dirname of an absolute normalised path
pathDirname(segs) == IF segs = <<>> THEN segs ELSE Front(segs)

\* path.join(absolute, 'index.js')
pathJoinIndex(segs) == Append(segs, <<"i", "n", "d", "e", "x", ".", "j", "s">>)

\* path.extname: from the last '.' of the last segment, '' if there is none or
\* the segment starts with its only '.' or is '..'
pathExtname(p) ==
  LET nonEmpty == SelectSeq(split(p), LAMBDA g : g # <<>>)
      base == IF nonEmpty = <<>> THEN <<>> ELSE Last(nonEmpty)
      dots == {i \in 1..Len(base) : base[i] = "."}
      last == CHOOSE i \in dots : \A k \in dots : k <= i
  IN IF dots = {} \/ base = <<".", ".">> THEN <<>>
     ELSE IF last = 1 THEN <<>>
     ELSE SubSeq(base, last, Len(base))

\* absolute path string += extension
appendExtension(segs, ext) ==
  IF ext = <<>> THEN segs
  ELSE IF segs = <<>> THEN <<ext>>
  ELSE [segs EXCEPT ![Len(segs)] = @ \o ext]

\* ---------------------------------------------------------------- src/project.js

Infinity == -1
plus(a, b) == IF a = Infinity \/ b = Infinity THEN Infinity ELSE a + b
greater(a, b) == a # Infinity => (b # Infinity /\ a > b)
finite(a) == a # Infinity

percentify(value, limit) == IF limit = 0 THEN Div(0, 1) ELSE Div(value * 100, limit)
percentifyDensity(density, matrix) == percentify(density, Len(matrix) * Len(matrix))

isCommonJSDependency(dependency) == dependency.type = "CommonJS"

isInternalCommonJSDependency(dependency) ==
  LET q == dependency.path
      at(i) == IF i <= Len(q) THEN q[i] ELSE "undefined"
  IN at(1) = "." /\ (at(2) = sep \/ (at(2) = "." /\ at(3) = sep))

isDependency(from, dependency, to) ==
  LET dependencyPath == dependency.path
      fromFileAbsolutePath == pathResolve(from)
      toFileAbsolutePath == pathResolve(to)
      dependencyAbsolutePath == pathResolveFrom(pathDirname(fromFileAbsolutePath), dependencyPath)
  IN IF pathExtname(dependencyPath) = <<>>
     THEN IF pathJoinIndex(dependencyAbsolutePath) = toFileAbsolutePath
          THEN TRUE
          ELSE appendExtension(dependencyAbsolutePath, pathExtname(to)) = toFileAbsolutePath
     ELSE dependencyAbsolutePath = toFileAbsolutePath

checkDependency(from, dependency, to) ==
  IF isCommonJSDependency(dependency)
  THEN IF isInternalCommonJSDependency(dependency)
       THEN isDependency(from, dependency, to)
       ELSE FALSE
  ELSE isDependency(from, dependency, to)

\* from.dependencies.reduce(..., false)
RECURSIVE reduceDependencies(_, _, _, _)
reduceDependencies(acc, deps, from, to) ==
  IF deps = <<>> THEN acc
  ELSE reduceDependencies(IF acc = FALSE THEN checkDependency(from.path, Head(deps), to.path)
                          ELSE TRUE,
                          Tail(deps), from, to)

doesDependencyExist(from, to) == reduceDependencies(FALSE, from.dependencies, from, to)

\* Mutant: no test of x === y.
getAdjacencyMatrixValueNoDiagonal(rs, x, y) ==
  IF doesDependencyExist(rs[x], rs[y]) THEN 1 ELSE 0

getAdjacencyMatrixValue(rs, x, y) ==
  IF x = y THEN 0
  ELSE IF doesDependencyExist(rs[x], rs[y]) THEN 1
  ELSE 0

comparePaths(lhs, rhs) ==
  LET lsplit == split(lhs)
      rsplit == split(rhs)
  IN IF Len(lsplit) < Len(rsplit) \/ (Len(lsplit) = Len(rsplit) /\ stringLess(lhs, rhs))
     THEN -1
     ELSE IF Len(lsplit) > Len(rsplit) \/ (Len(lsplit) = Len(rsplit) /\ stringLess(rhs, lhs))
          THEN 1
          ELSE 0

\* result.reports.sort(function (lhs, rhs) { return comparePaths(lhs.path, rhs.path) }):
\* Array.prototype.sort is stable; modelled as an insertion sort
RECURSIVE insertReport(_, _)
insertReport(sorted, x) ==
  IF sorted = <<>> THEN <<x>>
  ELSE IF comparePaths(x.path, Last(sorted).path) < 0
       THEN Append(insertReport(Front(sorted), x), Last(sorted))
       ELSE Append(sorted, x)

RECURSIVE sortReports(_)
sortReports(rs) ==
  IF rs = <<>> THEN rs ELSE insertReport(sortReports(Front(rs)), Last(rs))

\* The number of cells that createAdjacencyMatrix counts in density.
densityOf(matrix) ==
  Cardinality({<<x, y>> \in (1..Len(matrix)) \X (1..Len(matrix)) : matrix[x][y] = 1})

\* result: [reports, adjacencyMatrix, firstOrderDensity, visibilityMatrix, changeCost,
\* coreSize, averages], the last five 0 or 1 element long
createAdjacencyMatrix(res) ==
  The({ The({ [res EXCEPT !.reports = rs,
                          !.adjacencyMatrix = Some(adjacencyMatrix),
                          !.firstOrderDensity =
                             Some(percentifyDensity(densityOf(adjacencyMatrix), adjacencyMatrix))]
              : adjacencyMatrix \in
                  { [x \in 1..Len(rs) |->
                       [y \in 1..Len(rs) |-> getAdjacencyMatrixValue(rs, x, y)]] } })
        : rs \in { sortReports(res.reports) } })

adjacencyToDistMatrix(matrix) ==
  [i \in 1..Len(matrix) |->
     [j \in 1..Len(matrix[i]) |->
        IF i = j THEN 1
        ELSE IF matrix[i][j] # 0 THEN matrix[i][j] ELSE Infinity]]

\* The three nested loops of createVisibilityMatrix: each operator is one loop,
\* from its index on, and gives the matrix the loop leaves.
RECURSIVE forJ(_, _, _, _)
forJ(d, k, i, j) ==
  IF j > Len(d) THEN d
  ELSE The({ forJ(next, k, i, j + 1)
             : next \in { IF greater(d[i][j], plus(d[i][k], d[k][j]))
                          THEN [d EXCEPT ![i][j] = plus(d[i][k], d[k][j])]
                          ELSE d } })

RECURSIVE forI(_, _, _)
forI(d, k, i) ==
  IF i > Len(d) THEN d
  ELSE The({ forI(next, k, i + 1) : next \in { forJ(d, k, i, 1) } })

RECURSIVE floydWarshall(_, _)
floydWarshall(d, k) ==
  IF k > Len(d) THEN d
  ELSE The({ floydWarshall(next, k + 1) : next \in { forI(d, k, 1) } })

\* Mutant: the loop over k is left out.
distanceMatrixWithoutLoop(adjacencyMatrix) == adjacencyToDistMatrix(adjacencyMatrix)

distanceMatrix(adjacencyMatrix) == floydWarshall(adjacencyToDistMatrix(adjacencyMatrix), 1)

\* Mutant: only the cells off the diagonal are counted.
changeCostOffDiagonal(d) ==
  Cardinality({<<i, j>> \in (1..Len(d)) \X (1..Len(d)) : i # j /\ finite(d[i][j])})

\* The cells that the conversion counts in changeCost.
changeCostOf(d) ==
  Cardinality({<<i, j>> \in (1..Len(d)) \X (1..Len(d)) : finite(d[i][j])})

createVisibilityMatrix(res) ==
  The({ LET visibilityMatrix ==
              [rowIndex \in 1..Len(d) |->
                 [columnIndex \in 1..Len(d[rowIndex]) |->
                    IF finite(d[rowIndex][columnIndex]) /\ columnIndex # rowIndex THEN 1 ELSE 0]]
        IN [res EXCEPT !.visibilityMatrix = Some(visibilityMatrix),
                       !.changeCost = Some(percentifyDensity(changeCostOf(d), visibilityMatrix))]
        : d \in { distanceMatrix(res.adjacencyMatrix[1]) } })

compareNumbers(lhs, rhs) == IF lhs < rhs THEN -1 ELSE IF lhs > rhs THEN 1 ELSE 0

\* values.sort(compareNumbers)
RECURSIVE insertNumber(_, _)
insertNumber(sorted, x) ==
  IF sorted = <<>> THEN <<x>>
  ELSE IF compareNumbers(x, Last(sorted)) < 0
       THEN Append(insertNumber(Front(sorted), x), Last(sorted))
       ELSE Append(sorted, x)

RECURSIVE sortNumbers(_)
sortNumbers(values) ==
  IF values = <<>> THEN values ELSE insertNumber(sortNumbers(Front(values)), Last(values))

getMedian(values) ==
  The({ LET n == Len(sorted)
        IN IF n % 2 = 1 THEN Div(sorted[((n - 1) \div 2) + 1], 1)
           ELSE Div(sorted[((n - 2) \div 2) + 1] + sorted[(n \div 2) + 1], 2)
        : sorted \in { sortNumbers(values) } })

\* Mutant: > for >=.
moreThan(value, boundary) == value * boundary.den > boundary.num

\* value >= boundary, the boundary a fraction
atLeast(value, boundary) == value * boundary.den >= boundary.num

\* The forEach / reduce of setCoreSize, row by row: fanIn of the row is its sum,
\* fanOut of a column is set by row 0 and added to by the later rows.
RECURSIVE fanOfRows(_, _, _)
fanOfRows(matrix, rowIndex, acc) ==
  IF rowIndex > Len(matrix) THEN acc
  ELSE LET row == matrix[rowIndex]
       IN fanOfRows(matrix, rowIndex + 1,
            [fanIn |-> Append(acc.fanIn, SumSeq(row)),
             fanOut |-> IF rowIndex = 1 THEN row
                        ELSE [c \in 1..Len(row) |-> acc.fanOut[c] + row[c]]])

\* Gives the result and the two local arrays (Nothing on the early return).
setCoreSize(res) ==
  IF res.firstOrderDensity[1].num = 0
  THEN [result |-> [res EXCEPT !.coreSize = Some(Div(0, 1))], fan |-> Nothing]
  ELSE The({ The({ LET coreSize == Cardinality({index \in 1..Len(res.visibilityMatrix[1]) :
                                        /\ atLeast(f.fanIn[index], boundaries.fanIn)
                                        /\ atLeast(f.fanOut[index], boundaries.fanOut)})
                   IN [result |-> [res EXCEPT !.coreSize =
                                     Some(percentify(coreSize, Len(res.visibilityMatrix[1])))],
                       fan |-> Some(f)]
                   : boundaries \in { [fanIn |-> getMedian(f.fanIn),
                                       fanOut |-> getMedian(f.fanOut)] } })
             : f \in { fanOfRows(res.visibilityMatrix[1], 1,
                                 [fanIn |-> <<>>, fanOut |-> <<>>]) } })

\* The sums are kept as the sequences of their terms.
calculateAverages(res) ==
  LET divisor == IF Len(res.reports) = 0 THEN 1 ELSE Len(res.reports)
      terms(key) == [i \in 1..Len(res.reports) |-> res.reports[i].averages[1][key]]
  IN [res EXCEPT !.averages =
        Some([k \in {"cyclomatic", "effort", "loc", "maintainability", "params"} |->
                [terms |-> terms(k), over |-> divisor]])]

newResult(rs) ==
  [reports |-> rs, adjacencyMatrix |-> Nothing, firstOrderDensity |-> Nothing,
   visibilityMatrix |-> Nothing, changeCost |-> Nothing, coreSize |-> Nothing,
   averages |-> Nothing]

\* Gives the result and the local arrays of setCoreSize.
processResults(res, noCoreSize) ==
  The({ IF ~noCoreSize
        THEN The({ The({ [result |-> calculateAverages(r3.result), fan |-> r3.fan]
                         : r3 \in { setCoreSize(r2) } })
                   : r2 \in { createVisibilityMatrix(r1) } })
        ELSE [result |-> calculateAverages(r1), fan |-> Nothing]
        : r1 \in { createAdjacencyMatrix(res) } })

\* ---------------------------------------------------------------- analyse (project)

\* walker.walk(ast, settings, handlers) on a tree whose traversal is ast.walk:
\* a sequence of [op |-> "createScope" | "popScope" | "processNode", arg |-> ...]
RECURSIVE walk(_, _)
walk(st, evs) ==
  IF evs = <<>> THEN st
  ELSE LET e == Head(evs)
           next == IF e.op = "createScope"
                   THEN pushScope(st.heap, 1, st.locals, e.arg.name, e.arg.loc, e.arg.params)
                   ELSE IF e.op = "popScope"
                        THEN popScope(st.heap, 1, st.locals)
                        ELSE processNode(st.heap, 1, st.locals, e.arg)
       IN walk(next, Tail(evs))

\* moduleAnalyser.analyse(m.ast, walker, options), called when no other analyse
\* call is under way: what it throws or returns
moduleAnalyse(ast, walker, settings) ==
  IF analyseAssertion(ast, walker) # ""
  THEN [threw |-> TRUE, message |-> analyseAssertion(ast, walker), report |-> Nothing]
  ELSE LET L == [settings |-> settings, currentReport |-> NoRef,
                 clearDependencies |-> TRUE, scopeStack |-> <<>>]
       IN The({ The({ IF res.threw
                      THEN [threw |-> TRUE,
                            message |-> "Encountered function with cyclomatic complexity zero!",
                            report |-> Nothing]
                      ELSE [threw |-> FALSE, message |-> "", report |-> Some(res.heap[1])]
                      : res \in { calculateMetrics(st.heap, 1, settings) } })
                : st \in { walk([heap |-> <<createReport(ast[1].loc)>>, locals |-> L],
                                ast[1].walk) } })

\* options = options || {}: the settings the module analyser reads from it
settingsOf(opts) ==
  [forin |-> FALSE, logicalor |-> FALSE, newmi |-> opts.newmi,
   switchcase |-> FALSE, trycatch |-> FALSE]

\* Mutant: the error is thrown on as it came.
rethrownAsItCame(path, message) == [prefix |-> Nothing, message |-> message]

\* error.message = m.path + ': ' + error.message; throw error
rethrown(path, message) == [prefix |-> Some(path), message |-> message]

\* report.path = m.path
withPath(r, path) ==
  [aggregate |-> r.aggregate, dependencies |-> r.dependencies, functions |-> r.functions,
   averages |-> r.averages, path |-> path]

\* The paths and trees of the modules given to analyse.
pathA == <<"a", ".", "j", "s">>
pathB == <<"b", ".", "j", "s">>
pathLibA == <<"l", "i", "b", "/", "a", ".", "j", "s">>
pathLibIndex == <<"l", "i", "b", "/", "i", "n", "d", "e", "x", ".", "j", "s">>

DependenciesNode(deps) ==
  [op |-> "processNode",
   arg |-> [lloc |-> Number(1), cyclomatic |-> Absent, operators |-> Nothing,
            operands |-> Nothing,
            dependencies |-> [isFunction |-> TRUE, returns |-> "array", value |-> deps]]]
TreeWith(deps) == Some([loc |-> Nothing, walk |-> <<DependenciesNode(deps)>>])
\* A function whose cyclomatic complexity the walker brings to 0.
ZeroCyclomaticTree ==
  Some([loc |-> Nothing,
        walk |-> << [op |-> "createScope", arg |-> [name |-> "f", loc |-> Nothing, params |-> 0]],
                    [op |-> "processNode",
                     arg |-> [lloc |-> Absent, cyclomatic |-> Number(-1), operators |-> Nothing,
                              operands |-> Nothing, dependencies |-> NoDependencies]] >>])

ModuleInputs ==
  { [path |-> pathA, ast |-> TreeWith(<<Dep("CommonJS", <<".", "/", "b">>),
                                        Dep("CommonJS", <<"l", "o", "d", "a", "s", "h">>)>>)],
    [path |-> pathA, ast |-> TreeWith(<<Dep("CommonJS", <<".", "/", "a">>),
                                        Dep("CommonJS", <<".", "/", "l", "i", "b">>)>>)],
    [path |-> pathB, ast |-> TreeWith(<<>>)],
    [path |-> pathB, ast |-> TreeWith(<<Dep("AMD", <<"a">>)>>)],
    [path |-> pathLibA, ast |-> TreeWith(<<Dep("CommonJS", <<".", ".", "/", "b", ".", "j", "s">>),
                                           Dep("CommonJS", <<".", "/", "i", "n", "d", "e", "x">>)>>)],
    [path |-> pathLibIndex, ast |-> TreeWith(<<Dep("CommonJS", <<".", ".", "/", "a">>)>>)],
    [path |-> pathB, ast |-> ZeroCyclomaticTree],
    [path |-> pathA, ast |-> Nothing],
    [path |-> <<>>, ast |-> TreeWith(<<>>)] }

OptionInputs ==
  { [skipCalculation |-> FALSE, noCoreSize |-> FALSE, newmi |-> FALSE],
    [skipCalculation |-> TRUE, noCoreSize |-> FALSE, newmi |-> FALSE],
    [skipCalculation |-> FALSE, noCoreSize |-> TRUE, newmi |-> TRUE] }

ModuleSequences == UNION {[1..n -> ModuleInputs] : n \in 0..MaxModules}

\* One call of the function given to modules.map.
MapModule ==
  /\ ppc = "map"
  /\ Len(analysed) + Len(thrown) < Len(modules)
  /\ \E i \in {Len(analysed) + 1} :
     \E m \in {modules[i]} :
     \E r \in {moduleAnalyse(m.ast, "walker", settingsOf(options))} :
        IF m.path = <<>>
        THEN /\ thrown' = Some([prefix |-> Nothing, message |-> "Invalid path"])
             /\ ppc' = "threw"
             /\ UNCHANGED <<analysed, reports>>
        ELSE /\ analysed' = Append(analysed, i)
             /\ IF r.threw
                THEN /\ thrown' = Some(rethrown(m.path, r.message))
                     /\ ppc' = "threw"
                     /\ UNCHANGED reports
                ELSE /\ reports' = Append(reports, withPath(r.report[1], m.path))
                     /\ UNCHANGED <<thrown, ppc>>
  /\ UNCHANGED <<modules, options, result, fan>>
  /\ UNCHANGED moduleVars

\* After the map: { reports } as it is, or processResults.
Finish ==
  /\ ppc = "map"
  /\ Len(analysed) = Len(modules)
  /\ IF options.skipCalculation
     THEN /\ result' = Some(newResult(reports))
          /\ fan' = Nothing
     ELSE \E res \in {processResults(newResult(reports), options.noCoreSize)} :
             /\ result' = Some(res.result)
             /\ fan' = res.fan
  /\ ppc' = "returned"
  /\ UNCHANGED <<modules, options, analysed, reports, thrown>>
  /\ UNCHANGED moduleVars

ModuleIdle == ModuleInit /\ reentrant = FALSE

InitProject ==
  /\ ModuleIdle
  /\ modules \in ModuleSequences
  /\ options \in OptionInputs
  /\ ppc = "map"
  /\ analysed = <<>>
  /\ reports = <<>>
  /\ result = Nothing
  /\ thrown = Nothing
  /\ fan = Nothing

NextProject == MapModule \/ Finish

\* analyse(modules, walker, options) of src/project.js
SpecProject == InitProject /\ [][NextProject]_vars

\* ---------------------------------------------------------------- processResults on every graph

\* The 0/1 matrices with a zero diagonal over n modules.
AdjacencyMatrices(n) ==
  {m \in [1..n -> [1..n -> {0, 1}]] : \A i \in 1..n : m[i][i] = 0}

\* processResults after createAdjacencyMatrix, for every adjacency matrix the
\* dependencies of up to MaxN modules can give.
InitMatrix ==
  /\ ModuleIdle
  /\ modules = <<>>
  /\ options = [skipCalculation |-> FALSE, noCoreSize |-> FALSE, newmi |-> FALSE]
  /\ analysed = <<>>
  /\ reports = <<>>
  /\ thrown = Nothing
  /\ fan = Nothing
  /\ ppc = "createAdjacencyMatrix"
  /\ \E n \in 0..MaxN : \E m \in AdjacencyMatrices(n) :
       result = Some([newResult(<<>>) EXCEPT
                        !.adjacencyMatrix = Some(m),
                        !.firstOrderDensity = Some(percentifyDensity(densityOf(m), m))])

CreateVisibilityMatrix ==
  /\ ppc = "createAdjacencyMatrix"
  /\ result' = Some(createVisibilityMatrix(result[1]))
  /\ ppc' = "createVisibilityMatrix"
  /\ UNCHANGED <<modules, options, analysed, reports, thrown, fan>>
  /\ UNCHANGED moduleVars

SetCoreSize ==
  /\ ppc = "createVisibilityMatrix"
  /\ \E res \in {setCoreSize(result[1])} :
       /\ result' = Some(res.result)
       /\ fan' = res.fan
  /\ ppc' = "setCoreSize"
  /\ UNCHANGED <<modules, options, analysed, reports, thrown>>
  /\ UNCHANGED moduleVars

NextMatrix == CreateVisibilityMatrix \/ SetCoreSize

SpecMatrix == InitMatrix /\ [][NextMatrix]_vars

\* ---------------------------------------------------------------- claims on src/module.js

\* The references to the function report objects allocated so far.
FnRefs == UNION {{[r |-> r, f |-> f] : f \in 1..Len(heap[r].functions)} : r \in 1..Len(heap)}
Fn(h, ref) == h[ref.r].functions[ref.f]
Metrics == {"operators", "operands"}

\* Every Halstead bag of every report object: the function reports and the aggregates.
AllBags ==
  {Fn(heap, ref).halstead[m] : ref \in FnRefs, m \in Metrics}
    \cup {heap[r].aggregate.halstead[m] : r \in 1..Len(heap), m \in Metrics}

\* The module report object of analyse call c while it walks and once it has returned.
ReportOf(c) ==
  IF pc[c] = "walking" THEN report
  ELSE IF pc[c] = "returned" THEN outcome[c].ref
  ELSE 0

TopOfStack(c) == IF locals[c].scopeStack = <<>> THEN NoRef ELSE Last(locals[c].scopeStack)

\* C1: two analyse calls whose callbacks interleave each return the report they
\* return when run alone on the same callbacks.
C1_Isolation ==
  \A c \in Calls : pc[c] = "returned" => outcome[c].value = Some(alone[c].heap[1])

\* C2: the aggregate's operator total, operand total and logical sloc are the sums
\* over the function reports plus what was met while no function was current, and
\* aggregate.cyclomatic - 1 is the sum of the functions' (cyclomatic - 1) plus the
\* amounts applied while no function was current.
C2_AggregateSums ==
  \A c \in Calls : ReportOf(c) # 0 =>
    LET R == heap[ReportOf(c)]
        over(g(_)) == SumSeq([i \in 1..Len(R.functions) |-> g(R.functions[i])])
        ops(fn) == fn.halstead.operators.total
        opnds(fn) == fn.halstead.operands.total
        lloc(fn) == fn.sloc.logical
        cyc(fn) == fn.cyclomatic - 1
    IN /\ ops(R.aggregate) = over(ops) + toplevel[c].operators
       /\ opnds(R.aggregate) = over(opnds) + toplevel[c].operands
       /\ lloc(R.aggregate) = over(lloc) + toplevel[c].lloc
       /\ cyc(R.aggregate) = over(cyc) + toplevel[c].cyclomatic

\* A call that processed a node with operators outside any function and another
\* inside a function.
C2_Witness ==
  \E c \in Calls :
    /\ ReportOf(c) # 0
    /\ toplevel[c].operators > 0
    /\ toplevel[c].cyclomatic # 0
    /\ \E i \in 1..Len(heap[ReportOf(c)].functions) :
         /\ heap[ReportOf(c)].functions[i].halstead.operators.total > 0
         /\ heap[ReportOf(c)].functions[i].cyclomatic # 1

\* C3: in every Halstead bag the identifiers are pairwise distinct, distinct is
\* their number and at most total; meeting an identifier that is in the list (as
\* it is, or after the '_' prefix of the built-in-name guard) adds 1 to total and
\* changes nothing else.
C3_HalsteadBag ==
  \A bag \in AllBags :
    /\ \A i, j \in 1..Len(bag.identifiers) :
         bag.identifiers[i] = bag.identifiers[j] => i = j
    /\ bag.distinct = Len(bag.identifiers)
    /\ bag.distinct <= bag.total
    /\ \A i \in 1..Len(bag.identifiers) :
         incrementHalsteadItems(bag, bag.identifiers[i]) = [bag EXCEPT !.total = @ + 1]
    /\ \A id \in ObjectPrototypeNames :
         IndexOf(bag.identifiers, "_" \o id) =>
           incrementHalsteadItems(bag, id) = [bag EXCEPT !.total = @ + 1]

\* A bag that met an identifier twice and holds a name the guard prefixed.
C3_Witness ==
  \E bag \in AllBags :
    /\ bag.total > bag.distinct
    /\ IndexOf(bag.identifiers, "_constructor")
    /\ bag.distinct >= 2

\* C9 as stated: a function report that popScope took off the stack has, at
\* every later point of the analyse call, the value it had then.
C9_NeverChangedAfterPop ==
  \A c \in Calls : \A i \in 1..Len(popped[c]) :
    Fn(heap, popped[c][i].ref) = popped[c][i].value

\* The fields of a function report that calculateMetrics does not write.
Unfinalised(fn) == [fn EXCEPT !.cyclomaticDensity = Nothing, !.halstead.derived = Nothing]

\* C9 amended: a callback changes no function report but the one on top of the
\* caller's scope stack and no module report but the caller's; a report taken
\* off the stack is changed by no later callback, and by calculateMetrics only in
\* cyclomaticDensity and the derived Halstead values.
C9_FrameAndPop ==
  [][ /\ events' = events + 1 =>
           /\ \A ref \in FnRefs :
                ref # TopOfStack(Last(active)) => Fn(heap', ref) = Fn(heap, ref)
           /\ \A r \in 1..Len(heap) : r # report => heap'[r] = heap[r]
      /\ \A c \in Calls : \A i \in 1..Len(popped'[c]) :
           /\ Unfinalised(Fn(heap', popped'[c][i].ref)) = Unfinalised(popped'[c][i].value)
           /\ pc'[c] = "walking" => Fn(heap', popped'[c][i].ref) = popped'[c][i].value
    ]_vars

\* A returned call with a function report that a node was processed in and that
\* was popped before the walk ended.
C9_Witness ==
  \E c \in Calls :
    /\ pc[c] = "returned"
    /\ popped[c] # <<>>
    /\ popped[c][1].value.sloc.logical > 0
    /\ Fn(heap, popped[c][1].ref).cyclomaticDensity # Nothing

\* C10: in every analyse call the clearFlag handed to a dependencies function is
\* true for the first such call and false for every later one, whatever the
\* function returns; the latch is still set as long as no node had a
\* dependencies function, and every call starts with it set.
C10_Latch ==
  \A c \in Calls : pc[c] # "idle" =>
    /\ \A i \in 1..Len(depCalls[c]) : depCalls[c][i] = (i = 1)
    /\ pc[c] = "walking" => (locals[c].clearDependencies <=> depCalls[c] = <<>>)

\* A second analyse call whose first dependencies function got true, after a
\* first call in which two nodes had one.
C10_Witness ==
  /\ Len(depCalls[1]) = 2
  /\ depCalls[2] = <<TRUE>>
  /\ heap[outcome[1].ref].dependencies = <<>>


\* ---------------------------------------------------------------- claims on src/project.js

Matrix == result[1].adjacencyMatrix[1]
Visibility == result[1].visibilityMatrix[1]
Size == Len(Matrix)

\* The modules that module x reaches by one or more edges of matrix a.
RECURSIVE Closure(_, _)
Closure(a, S) ==
  LET T == S \cup {y \in 1..Len(a) : \E x \in S : a[x][y] = 1}
  IN IF T = S THEN S ELSE Closure(a, T)
Reaches(a, x) == Closure(a, {y \in 1..Len(a) : a[x][y] = 1})

Ones(m) == Cardinality({<<i, j>> \in (1..Len(m)) \X (1..Len(m)) : m[i][j] = 1})
RowSum(m, r) == Cardinality({j \in 1..Len(m) : m[r][j] = 1})
ColumnSum(m, c) == Cardinality({i \in 1..Len(m) : m[i][c] = 1})

\* The k-th smallest of the values of a sequence.
Kth(values, k) ==
  CHOOSE v \in {values[i] : i \in 1..Len(values)} :
    /\ Cardinality({i \in 1..Len(values) : values[i] < v}) < k
    /\ Cardinality({i \in 1..Len(values) : values[i] <= v}) >= k
\* Twice the median: the middle element, or the mean of the two middle ones.
TwiceMedian(values) ==
  IF Len(values) % 2 = 1 THEN 2 * Kth(values, (Len(values) + 1) \div 2)
  ELSE Kth(values, Len(values) \div 2) + Kth(values, (Len(values) \div 2) + 1)

Chain3 == << <<0, 1, 0>>, <<0, 0, 1>>, <<0, 0, 0>> >>
Edge2 == << <<0, 1>>, <<0, 0>> >>

\* C4: visibilityMatrix[i][j] is 1 exactly when i # j and the adjacency graph has
\* a path of one or more edges from i to j, and 0 otherwise.
C4_VisibilityIsReachability ==
  ppc \in {"createVisibilityMatrix", "setCoreSize"} =>
    \A i, j \in 1..Size :
      Visibility[i][j] = IF i # j /\ j \in Reaches(Matrix, i) THEN 1 ELSE 0

\* A graph with a cycle through a module that also reaches a module two edges away.
C4_Witness ==
  /\ ppc = "createVisibilityMatrix"
  /\ Size = 3
  /\ Matrix = << <<0, 1, 0>>, <<1, 0, 1>>, <<0, 0, 0>> >>
  /\ Visibility = << <<0, 1, 1>>, <<1, 0, 1>>, <<0, 0, 0>> >>

\* C5: after processResults the reports are in the order of the path comparator,
\* and adjacencyMatrix[x][y] is 1 exactly when x # y and some dependency record
\* of report x resolves to the path of report y; the diagonal is 0.
C5_Adjacency ==
  (ppc = "returned" /\ ~options.skipCalculation) =>
    LET rs == result[1].reports
    IN /\ Len(rs) = Len(reports)
       /\ \A r \in {reports[i] : i \in 1..Len(reports)} :
            Cardinality({i \in 1..Len(rs) : rs[i] = r})
              = Cardinality({i \in 1..Len(reports) : reports[i] = r})
       /\ \A x, y \in 1..Len(rs) :
            x < y =>
              \/ Len(split(rs[x].path)) < Len(split(rs[y].path))
              \/ /\ Len(split(rs[x].path)) = Len(split(rs[y].path))
                 /\ ~stringLess(rs[y].path, rs[x].path)
       /\ Size = Len(rs)
       /\ \A x, y \in 1..Len(rs) :
            Matrix[x][y] =
              IF x # y /\ \E k \in 1..Len(rs[x].dependencies) :
                            checkDependency(rs[x].path, rs[x].dependencies[k], rs[y].path)
              THEN 1 ELSE 0
       /\ \A x \in 1..Len(rs) : Matrix[x][x] = 0

\* lib/index.js, a.js (which requires './a', itself, and './lib') and b.js, given
\* in that order: sorted to a.js, b.js, lib/index.js, with the edges
\* a -> lib/index, b -> a, lib/index -> a and no edge a -> a.
C5_Witness ==
  /\ ppc = "returned"
  /\ ~options.skipCalculation
  /\ Len(modules) = 3
  /\ modules[1].path = pathLibIndex
  /\ modules[2].path = pathA
  /\ \E k \in 1..Len(reports[2].dependencies) :
       checkDependency(pathA, reports[2].dependencies[k], pathA)
  /\ [i \in 1..3 |-> result[1].reports[i].path] = <<pathA, pathB, pathLibIndex>>
  /\ Matrix = << <<0, 0, 1>>, <<1, 0, 0>>, <<1, 0, 0>> >>

\* The general part of C6: coreSize is 0 when firstOrderDensity is 0, and
\* otherwise 100 / N times the number of modules whose row sum and column sum of
\* the visibility matrix both reach the median of the row sums and of the
\* column sums.
CoreSizeFormula ==
  LET fod == result[1].firstOrderDensity[1]
      cs == result[1].coreSize[1]
      fanIn == [r \in 1..Size |-> RowSum(Visibility, r)]
      fanOut == [c \in 1..Size |-> ColumnSum(Visibility, c)]
      count == Cardinality({i \in 1..Size :
                  /\ 2 * fanIn[i] >= TwiceMedian(fanIn)
                  /\ 2 * fanOut[i] >= TwiceMedian(fanOut)})
  IN IF fod.num = 0 THEN cs.num = 0
     ELSE /\ cs.num * Size = 100 * count * cs.den
          /\ fan = Some([fanIn |-> fanIn, fanOut |-> fanOut])

\* C6 as stated: the formula, and for the chain A -> B -> C fanIn = [0,1,2],
\* fanOut = [2,1,0] and coreSize = 100/3.
C6_AsStated ==
  ppc = "setCoreSize" =>
    /\ CoreSizeFormula
    /\ Matrix = Chain3 =>
         /\ fan = Some([fanIn |-> <<0, 1, 2>>, fanOut |-> <<2, 1, 0>>])
         /\ result[1].coreSize[1].num * 3 = 100 * result[1].coreSize[1].den

\* C6 amended: the formula, and for the chain A -> B -> C fanIn (the row sums)
\* = [2,1,0], fanOut (the column sums) = [0,1,2], both medians 1, only index 1
\* counted and coreSize = 100/3.
C6_CoreSize ==
  ppc = "setCoreSize" =>
    /\ CoreSizeFormula
    /\ Matrix = Chain3 =>
         /\ fan = Some([fanIn |-> <<2, 1, 0>>, fanOut |-> <<0, 1, 2>>])
         /\ getMedian(fan[1].fanIn) = Div(1, 1)
         /\ getMedian(fan[1].fanOut) = Div(1, 1)
         /\ result[1].coreSize[1].num * 3 = 100 * result[1].coreSize[1].den

\* setCoreSize has run on the chain A -> B -> C.
C6_Witness ==
  /\ ppc = "setCoreSize"
  /\ Matrix = Chain3
  /\ Visibility = << <<0, 1, 1>>, <<0, 0, 1>>, <<0, 0, 0>> >>
  /\ result[1].coreSize # Nothing

\* C7: changeCost = (N + number of 1-cells of the visibility matrix) / N^2 x 100
\* for N >= 1, hence at least 100 / N; for two modules with the one edge A -> B
\* changeCost = 75 and firstOrderDensity = 25.
C7_ChangeCost ==
  (ppc \in {"createVisibilityMatrix", "setCoreSize"} /\ Size >= 1) =>
    LET cc == result[1].changeCost[1]
        fod == result[1].firstOrderDensity[1]
    IN /\ cc.num * Size * Size = (Size + Ones(Visibility)) * 100 * cc.den
       /\ cc.num * Size >= 100 * cc.den
       /\ Matrix = Edge2 => (cc.num = 75 * cc.den /\ fod.num = 25 * fod.den)

\* createVisibilityMatrix has run on the two modules with the one edge A -> B.
C7_Witness ==
  /\ ppc = "createVisibilityMatrix"
  /\ Matrix = Edge2
  /\ result[1].changeCost # Nothing

\* Whether the module analyser raises an error for the i-th module.
Raises(i) == moduleAnalyse(modules[i].ast, "walker", settingsOf(options)).threw

\* C8: when the module analyser raises an error for a module, analyse raises it
\* with the module's path before the message and returns nothing, and analyses
\* no module after that one.
C8_ErrorPropagation ==
  \A k \in 1..Len(analysed) :
    Raises(analysed[k]) =>
      /\ ppc = "threw"
      /\ thrown = Some([prefix |-> Some(modules[analysed[k]].path),
                        message |-> moduleAnalyse(modules[analysed[k]].ast, "walker",
                                                  settingsOf(options)).message])
      /\ result = Nothing
      /\ fan = Nothing
      /\ k = Len(analysed)
      /\ analysed = [i \in 1..k |-> i]

\* The second of three modules failed after the first gave a report.
C8_Witness ==
  /\ ppc = "threw"
  /\ Len(modules) = 3
  /\ analysed = <<1, 2>>
  /\ Len(reports) = 1
  /\ thrown # Nothing
  /\ thrown[1].prefix = Some(pathB)
  /\ thrown[1].message = "Encountered function with cyclomatic complexity zero!"

====
